---- MODULE Spec2Model ----
(***************************************************************************)
(* Model of the bigram transition model of HunTag3 (src/bigram.py, class   *)
(* TransModel) and of the bigram-train flow of src/huntag.py.              *)
(*                                                                         *)
(* Floating point values (log-probabilities) are fixed-point numbers with  *)
(* nine decimals: the pair <<i, f>> stands for i + f * 10^-9 with          *)
(* 0 <= f < 10^9, so that the eight-decimal rounding of the model file is  *)
(* a real rounding.  math.log is a table of correctly rounded values.      *)
(***************************************************************************)
EXTENDS Integers, Sequences, FiniteSets, TLC

(* ------------------------------ bounds -------------------------------- *)
\* most observations (obs calls) a model accumulates
MaxObs == 3
\* longest tag sequence handed to obsSequence
MaxLen == 2
\* most positions of a sentence handed to the decoder
MaxPos == 2

(* --------------------------- fixed-point floats ------------------------ *)
\* units per 1.0 of the fixed-point fraction
Giga == 10 ^ 9

Zero == <<0, 0>>

FxAdd(a, b) ==
    LET s == a[2] + b[2]
    IN  IF s >= Giga THEN <<a[1] + b[1] + 1, s - Giga>> ELSE <<a[1] + b[1], s>>

FxNeg(a) == IF a[2] = 0 THEN <<0 - a[1], 0>> ELSE <<0 - a[1] - 1, Giga - a[2]>>

FxSub(a, b) == FxAdd(a, FxNeg(b))

FxLess(a, b) == a[1] < b[1] \/ (a[1] = b[1] /\ a[2] < b[2])

FxLeq(a, b) == a = b \/ FxLess(a, b)

FxAbs(a) == IF a[1] < 0 THEN FxNeg(a) ELSE a

\* k * a for a small non-negative integer k (the language model weight)
RECURSIVE FxMulInt(_, _)
FxMulInt(k, a) == IF k = 0 THEN Zero ELSE FxAdd(a, FxMulInt(k - 1, a))

\* natural logarithms of 1..50, rounded to nine decimals
LnTable ==
    << <<0, 0>>,         <<0, 693147181>>, <<1, 98612289>>,  <<1, 386294361>>,
       <<1, 609437912>>, <<1, 791759469>>, <<1, 945910149>>, <<2, 79441542>>,
       <<2, 197224577>>, <<2, 302585093>>, <<2, 397895273>>, <<2, 484906650>>,
       <<2, 564949357>>, <<2, 639057330>>, <<2, 708050201>>, <<2, 772588722>>,
       <<2, 833213344>>, <<2, 890371758>>, <<2, 944438979>>, <<2, 995732274>>,
       <<3, 44522438>>,  <<3, 91042453>>,  <<3, 135494216>>, <<3, 178053830>>,
       <<3, 218875825>>, <<3, 258096538>>, <<3, 295836866>>, <<3, 332204510>>,
       <<3, 367295830>>, <<3, 401197382>>, <<3, 433987204>>, <<3, 465735903>>,
       <<3, 496507561>>, <<3, 526360525>>, <<3, 555348061>>, <<3, 583518938>>,
       <<3, 610917913>>, <<3, 637586160>>, <<3, 663561646>>, <<3, 688879454>>,
       <<3, 713572067>>, <<3, 737669618>>, <<3, 761200116>>, <<3, 784189634>>,
       <<3, 806662490>>, <<3, 828641396>>, <<3, 850147602>>, <<3, 871201011>>,
       <<3, 891820298>>, <<3, 912023005>> >>

\* math.log of a positive count (math.log(0) raises: the callers test for it)
MathLog(n) == LnTable[n]

\* the probabilities a classifier hands to the decoder, in percent
Probs == {10, 90}

\* math.log of a probability given in percent
MathLogProb(p) ==
    CASE p = 10 -> <<-3, 697414907>>
      [] p = 50 -> <<-1, 306852819>>
      [] p = 90 -> <<-1, 894639484>>

(* ------------------------------ the model ------------------------------ *)
\* the labels of the corpus; "S" is the boundary symbol
Tags == {"S", "A", "B"}

boundarySymbol == "S"

\* smooth = 10^-SmoothExp
SmoothExp == 15

\* _logSmooth = math.log(self._smooth), for smooth = 10^-smoothExp
LogSmoothOf(smoothExp) == FxNeg(FxMulInt(smoothExp, MathLog(10)))

\* lmw=1.0, the weight of a model constructed without one
DefaultLmw == 1

\* the language model weights a model is constructed with
LmwValues == {0, DefaultLmw, 2}

\* the model file of the first and of the second round trip
Round == {1, 2}

\* the models that decode: 0 is the trained one, i the one loaded in round i
ModelIds == {0} \cup Round

NoTable == [x \in {} |-> Zero]

Put(f, k, v) == [x \in DOMAIN f \cup {k} |-> IF x = k THEN v ELSE f[x]]

\* the function f as an explicit table: its values are computed once
Dict(f) == f @@ NoTable

VARIABLES
    bigramCount,     \* self._bigramCount: pair -> count, the keys that exist
    unigramCount,    \* self._unigramCount: tag -> count, the keys that exist
    obsCount,        \* self._obsCount
    updated,         \* self.updated
    tags,            \* self.tags
    bigramLogProb,   \* self.bigramLogProb
    unigramLogProb,  \* self.unigramLogProb
    lmw,             \* self._languageModelWeight
    last,            \* the last call on the model and what it gave
    finalized,       \* the two tables as the last count() that returned left them
    direct,          \* whether obs was called other than by obsSequence
    modelFile,       \* modelFile[i]: the model file of round i
    loaded,          \* loaded[i]: the model getModelFromFile made of modelFile[i]
    damage,          \* what was done to modelFile[1] after it was written
    sentence,        \* tagProbsByPos, the distributions of the sentence tagged
    decoded          \* which model tagged the sentence, and what viterbi gave

trainVars == <<bigramCount, unigramCount, obsCount, updated, tags, bigramLogProb,
               unigramLogProb, lmw, finalized, direct>>

fileVars == <<modelFile, loaded, damage>>

tagVars == <<sentence, decoded>>

vars == <<trainVars, last, fileVars, tagVars>>

NoFile == [exists |-> FALSE, lines |-> <<>>]

NoModel ==
    [exists |-> FALSE, tags |-> {}, unigramLogProb |-> NoTable, bigramLogProb |-> NoTable,
     smooth |-> 0, boundarySymbol |-> "", lmw |-> 0, updated |-> TRUE]

NotDecoded ==
    [done |-> FALSE, by |-> 0, ok |-> FALSE, err |-> "", prob |-> Zero, path |-> <<>>]

\* the trained model as an object
Self ==
    [exists |-> TRUE, tags |-> tags, unigramLogProb |-> unigramLogProb,
     bigramLogProb |-> bigramLogProb, smooth |-> SmoothExp,
     boundarySymbol |-> boundarySymbol, lmw |-> lmw, updated |-> updated]

Tables(blp, ulp) == [bigramLogProb |-> blp, unigramLogProb |-> ulp]

Call(op, ok) ==
    [op |-> op, ok |-> ok, first |-> "", second |-> "", ret |-> Zero, warned |-> FALSE]

Init ==
    /\ bigramCount = [x \in {} |-> 0]
    /\ unigramCount = [x \in {} |-> 0]
    /\ obsCount = 0
    /\ updated = TRUE
    /\ tags = {}
    /\ bigramLogProb = NoTable
    /\ unigramLogProb = NoTable
    /\ lmw \in LmwValues
    /\ last = Call("init", TRUE)
    /\ finalized = Tables(NoTable, NoTable)
    /\ direct = FALSE
    /\ modelFile = [i \in Round |-> NoFile]
    /\ loaded = [i \in Round |-> NoModel]
    /\ damage = "none"
    /\ sentence = <<>>
    /\ decoded = NotDecoded

\* defaultdict: a missing key reads as 0
Get(f, k) == IF k \in DOMAIN f THEN f[k] ELSE 0

\* the counts after obs(first, second)
ObsBigram(bc, first, second) == Put(bc, <<first, second>>, Get(bc, <<first, second>>) + 1)

\* obs with the unigram count assigned where line 65 adds to it
ObsUnigramAssigned(uc, second) == Put(uc, second, 1)

ObsUnigram(uc, second) == Put(uc, second, Get(uc, second) + 1)

Obs(first, second) ==
    /\ obsCount < MaxObs
    /\ bigramCount' = ObsBigram(bigramCount, first, second)
    /\ unigramCount' = ObsUnigram(unigramCount, second)
    /\ obsCount' = obsCount + 1
    /\ updated' = FALSE
    /\ direct' = TRUE
    /\ last' = Call("obs", TRUE)
    /\ UNCHANGED <<tags, bigramLogProb, unigramLogProb, lmw, finalized>>
    /\ UNCHANGED <<fileVars, tagVars>>

\* the adjacent pairs of boundary + tagSequence + boundary
SeqPairs(tagSequence) ==
    LET padded == <<boundarySymbol>> \o tagSequence \o <<boundarySymbol>>
    IN  [i \in 1..(Len(tagSequence) + 1) |-> <<padded[i], padded[i + 1]>>]

RECURSIVE ObsAllBigram(_, _)
ObsAllBigram(bc, ps) ==
    IF ps = <<>> THEN bc
    ELSE ObsAllBigram(ObsBigram(bc, Head(ps)[1], Head(ps)[2]), Tail(ps))

RECURSIVE ObsAllUnigram(_, _)
ObsAllUnigram(uc, ps) ==
    IF ps = <<>> THEN uc
    ELSE ObsAllUnigram(ObsUnigram(uc, Head(ps)[2]), Tail(ps))

TagSequences == UNION {[1..n -> Tags] : n \in 0..MaxLen}

ObsSequence(tagSequence) ==
    /\ obsCount + Len(tagSequence) + 1 <= MaxObs
    /\ bigramCount' = ObsAllBigram(bigramCount, SeqPairs(tagSequence))
    /\ unigramCount' = ObsAllUnigram(unigramCount, SeqPairs(tagSequence))
    /\ obsCount' = obsCount + Len(tagSequence) + 1
    /\ updated' = FALSE
    /\ last' = Call("obsSequence", TRUE)
    /\ UNCHANGED <<tags, bigramLogProb, unigramLogProb, lmw, finalized, direct>>
    /\ UNCHANGED <<fileVars, tagVars>>

Reset ==
    /\ bigramCount' = [x \in {} |-> 0]
    /\ unigramCount' = [x \in {} |-> 0]
    /\ obsCount' = 0
    /\ updated' = TRUE
    /\ bigramLogProb' = NoTable
    /\ unigramLogProb' = NoTable
    /\ finalized' = Tables(NoTable, NoTable)
    /\ direct' = FALSE
    /\ last' = Call("reset", TRUE)
    /\ UNCHANGED <<tags, lmw, fileVars, tagVars>>

\* line 78
UnigramLogProbOf(uc, n, tag) == FxSub(MathLog(uc[tag]), MathLog(n))

\* lines 85-86
BigramLogProbOf(bc, uc, ulp, pair) ==
    FxSub(FxSub(MathLog(bc[pair]), MathLog(uc[pair[1]])), ulp[pair[1]])

\* count(): the loop over the unigram counts raises at a count of 0.0, the
\* loop over the bigram counts at a first tag that was never counted (reading
\* it inserts a count of 0.0).  Dictionaries are walked in no fixed order, so
\* the entries written before the exception are any subset of the good ones.
Count ==
    LET uKeys == DOMAIN unigramCount
        zeroU == {t \in uKeys : unigramCount[t] = 0}
        ulp   == [t \in uKeys |-> UnigramLogProbOf(unigramCount, obsCount, t)]
        badP  == {p \in DOMAIN bigramCount : p[1] \notin uKeys}
    IN  IF zeroU # {}
        THEN \E done \in SUBSET (uKeys \ zeroU) :
               /\ tags' = done
               /\ unigramLogProb' =
                      [t \in done |-> UnigramLogProbOf(unigramCount, obsCount, t)]
               /\ bigramLogProb' = NoTable
               /\ last' = Call("count", FALSE)
               /\ UNCHANGED <<bigramCount, unigramCount, obsCount, updated, lmw,
                              finalized, direct, fileVars, tagVars>>
        ELSE IF badP # {}
        THEN \E bad \in badP : \E done \in SUBSET (DOMAIN bigramCount \ badP) :
               /\ tags' = uKeys
               /\ unigramLogProb' = ulp
               /\ bigramLogProb' =
                      [p \in done |-> BigramLogProbOf(bigramCount, unigramCount, ulp, p)]
               /\ unigramCount' = Put(unigramCount, bad[1], 0)
               /\ last' = Call("count", FALSE)
               /\ UNCHANGED <<bigramCount, obsCount, updated, lmw, finalized, direct,
                              fileVars, tagVars>>
        ELSE /\ tags' = uKeys
             /\ unigramLogProb' = ulp
             /\ bigramLogProb' =
                    [p \in DOMAIN bigramCount |->
                        BigramLogProbOf(bigramCount, unigramCount, ulp, p)]
             /\ updated' = TRUE
             /\ finalized' = Tables(bigramLogProb', unigramLogProb')
             /\ last' = Call("count", TRUE)
             /\ UNCHANGED <<bigramCount, unigramCount, obsCount, lmw, direct,
                            fileVars, tagVars>>

\* what logProb(first, second) returns on the model m
LogProb(m, first, second) ==
    IF <<first, second>> \in DOMAIN m.bigramLogProb
    THEN m.bigramLogProb[<<first, second>>]
    ELSE LogSmoothOf(m.smooth)

\* whether logProb prints the warning on the model m
Warns(m) == ~m.updated

LogProbQuery(first, second) ==
    /\ last' = [op |-> "logProb", ok |-> TRUE, first |-> first, second |-> second,
                ret |-> LogProb(Self, first, second), warned |-> Warns(Self)]
    /\ UNCHANGED <<trainVars, fileVars, tagVars>>


(* --------------------------- the model file ---------------------------- *)
\* A line of the file is the sequence of its whitespace-separated fields.
\* A field is a label, the text of a float, or "tag:float".
Label(s) == [k |-> "label", s |-> s, v |-> Zero]

\* str(x) of a float x: float(str(x)) = x
Float(x) == [k |-> "float", s |-> "", v |-> x]

TagProb(tag, x) == [k |-> "tagprob", s |-> tag, v |-> x]

\* '{:.8f}'.format(x) read back: x rounded to eight decimals, ties to even
Round8(x) ==
    LET r    == x[2] % 10
        down == x[2] - r
        up   == IF down + 10 = Giga THEN <<x[1] + 1, 0>> ELSE <<x[1], down + 10>>
    IN  IF r < 5 THEN <<x[1], down>>
        ELSE IF r > 5 THEN up
        ELSE IF (down \div 10) % 2 = 0 THEN <<x[1], down>> ELSE up

\* the tags in the order of the strings; a set is written in this order
TagOrder == <<"A", "B", "S">>

Rank(tag) == CHOOSE i \in 1..Len(TagOrder) : TagOrder[i] = tag

RECURSIVE Sorted(_)
Sorted(S) ==
    IF S = {} THEN <<>>
    ELSE LET x == CHOOSE y \in S : \A z \in S : Rank(y) <= Rank(z)
         IN  <<x>> \o Sorted(S \ {x})

\* lines 106-108: the unigram line leaves the boundary symbol out
TagProbsLine(m) ==
    LET ts == Sorted({tag \in m.tags : tag # m.boundarySymbol})
    IN  [i \in 1..Len(ts) |-> TagProb(ts[i], m.unigramLogProb[ts[i]])]

\* a writer that has a line for the observed pairs only
BigramLinesObserved(m) ==
    LET ts  == Sorted(m.tags)
        n   == Len(ts)
        all == [i \in 1..(n * n) |-> <<ts[((i - 1) \div n) + 1], ts[((i - 1) % n) + 1]>>]
        obs == SelectSeq(all, LAMBDA p : p \in DOMAIN m.bigramLogProb)
    IN  [i \in 1..Len(obs) |->
            <<Label(obs[i][1]), Label(obs[i][2]), Float(Round8(m.bigramLogProb[obs[i]]))>>]

\* lines 109-113: one line for every pair of tags of the model
BigramLines(m) ==
    LET ts == Sorted(m.tags)
        n  == Len(ts)
    IN  [i \in 1..(n * n) |->
            LET t1 == ts[((i - 1) \div n) + 1]
                t2 == ts[((i - 1) % n) + 1]
            IN  <<Label(t1), Label(t2), Float(Round8(LogProb(m, t1, t2)))>>]

\* the lines writeToFile writes for the model m
FileOf(m) ==
    << <<Float(m.smooth)>>, <<Label(m.boundarySymbol)>>, <<Float(m.lmw)>>,
       TagProbsLine(m) >> \o BigramLines(m)

\* readline(): the next line, empty at the end of the file
ReadLine(lines, i) == IF i <= Len(lines) THEN lines[i] ELSE <<>>

\* float(text) succeeds on the text of one float
IsFloat(line) == Len(line) = 1 /\ line[1].k = "float"

\* the text of a field or line used as a label; text that is no label of the
\* corpus reads as a string that is no tag
TextOf(line) == IF Len(line) = 1 /\ line[1].k = "label" THEN line[1].s ELSE "?"

\* lines 128-131 on one line: fewer than three fields raise IndexError, a third
\* field that is no float raises ValueError, further fields are not looked at
BigramLineOk(l) == Len(l) >= 3 /\ l[3].k = "float"

RECURSIVE ReadBigrams(_, _, _)
ReadBigrams(lines, i, blp) ==
    IF i > Len(lines) THEN blp
    ELSE ReadBigrams(lines, i + 1,
                     Put(blp, <<TextOf(<<lines[i][1]>>), TextOf(<<lines[i][2]>>)>>,
                         lines[i][3].v))

\* whether getModelFromFile returns (it raises otherwise)
Loads(lines) ==
    /\ IsFloat(ReadLine(lines, 1))
    /\ IsFloat(ReadLine(lines, 3))
    /\ \A j \in 1..Len(ReadLine(lines, 4)) : ReadLine(lines, 4)[j].k = "tagprob"
    /\ \A i \in 5..Len(lines) : BigramLineOk(lines[i])

\* the model getModelFromFile returns
ModelOf(lines) ==
    LET tagProbs == ReadLine(lines, 4)
        ts       == {tagProbs[j].s : j \in 1..Len(tagProbs)}
    IN  [exists |-> TRUE,
         tags |-> ts,
         unigramLogProb |->
             [tag \in ts |->
                 tagProbs[CHOOSE j \in 1..Len(tagProbs) :
                             /\ tagProbs[j].s = tag
                             /\ \A h \in (j + 1)..Len(tagProbs) : tagProbs[h].s # tag].v],
         bigramLogProb |-> ReadBigrams(lines, 5, NoTable),
         smooth |-> ReadLine(lines, 1)[1].v,
         boundarySymbol |-> TextOf(ReadLine(lines, 2)),
         lmw |-> ReadLine(lines, 3)[1].v,
         updated |-> TRUE]

\* the model that writes the file of round i
Writer(i) == IF i = 1 THEN Self ELSE loaded[i - 1]

\* mainBigramTrain writes the model right after count(); a loaded model is
\* written as it is
WriteToFile(i) ==
    /\ ~decoded.done
    /\ ~modelFile[i].exists
    /\ IF i = 1 THEN last.op = "count" /\ last.ok ELSE loaded[i - 1].exists
    /\ modelFile' = [modelFile EXCEPT ![i] = [exists |-> TRUE, lines |-> FileOf(Writer(i))]]
    /\ last' = Call("writeToFile", TRUE)
    /\ UNCHANGED <<trainVars, loaded, damage, tagVars>>

GetModelFromFile(i) ==
    /\ ~decoded.done
    /\ modelFile[i].exists
    /\ ~loaded[i].exists
    /\ IF Loads(modelFile[i].lines)
       THEN /\ loaded' = [loaded EXCEPT ![i] = ModelOf(modelFile[i].lines)]
            /\ last' = Call("getModelFromFile", TRUE)
       ELSE /\ loaded' = loaded
            /\ last' = Call("getModelFromFile", FALSE)
    /\ UNCHANGED <<trainVars, modelFile, damage, tagVars>>

\* the tag sequences of the sentences of a corpus
CorpusSequences == UNION {[1..n -> Tags \ {boundarySymbol}] : n \in 0..MaxLen}

\* training as mainBigramTrain does it: sentences, before the file is written
Train(tagSequence) == ~modelFile[1].exists /\ ObsSequence(tagSequence)

Finish == ~modelFile[1].exists /\ Count

(* ------------------- a model file that was tampered with ---------------- *)
DropAt(lines, i) == [j \in 1..(Len(lines) - 1) |-> IF j < i THEN lines[j] ELSE lines[j + 1]]

Intact == modelFile[1].exists /\ damage = "none" /\ ~loaded[1].exists

Damage(kind, lines) ==
    /\ Intact
    /\ modelFile' = [modelFile EXCEPT ![1] = [exists |-> TRUE, lines |-> lines]]
    /\ damage' = kind
    /\ last' = Call("damage", TRUE)
    /\ UNCHANGED <<trainVars, loaded, tagVars>>

\* one of the four header lines is missing
DropHeaderLine(i) == Damage("header", DropAt(modelFile[1].lines, i))

\* a bigram line has a fourth field
AddField(i) ==
    Damage("fields", [modelFile[1].lines EXCEPT ![i] = Append(@, Label("x"))])

\* a bigram line has two fields
DropField(i) ==
    Damage("fields", [modelFile[1].lines EXCEPT ![i] = SubSeq(@, 1, 2)])

\* the probability of a bigram line is no number
NonNumeric(i) ==
    Damage("number", [modelFile[1].lines EXCEPT ![i] = [@ EXCEPT ![3] = Label("x")]])

HeaderLines == 1..4

BigramLineNumbers == 5..Len(modelFile[1].lines)

(* ------------------------------ the decoder ---------------------------- *)
\* the distributions of the classifier: it knows all tags or all but one, and
\* favours one label of the corpus among them
Dists ==
    {[y \in df[1] |-> IF y = df[2] THEN 90 ELSE 10] : df \in
        {df \in (SUBSET Tags) \X (Tags \ {boundarySymbol}) :
            df[2] \in df[1] /\ Cardinality(Tags \ df[1]) <= 1}}

Sentences == UNION {[1..n -> Dists] : n \in 0..MaxPos}

Raised(err) == [ok |-> FALSE, err |-> err, prob |-> Zero, path |-> <<>>]

\* max() of (prob, state) tuples: the greater prob, then the greater string
TupleLess(p1, s1, p2, s2) == FxLess(p1, p2) \/ (p1 = p2 /\ Rank(s1) < Rank(s2))

\* the key of the greatest tuple (score[y], y), y in states
ArgMax(states, score) ==
    CHOOSE y \in states :
        \A z \in states : z = y \/ TupleLess(score[z], z, score[y], y)

\* line 147: the logarithm of the probability of tag y
Emission(probDist, y) == MathLogProb(probDist[y])

\* an initialization without the transition from the boundary symbol
StartWithoutBoundary(m, probDist, y) == Emission(probDist, y)

\* lines 155-157: V[0][y]
Start(m, probDist, y) ==
    FxAdd(FxMulInt(m.lmw, LogProb(m, m.boundarySymbol, y)), Emission(probDist, y))

\* lines 166-169: the score of reaching y from y0
Extend(m, v, probDist, y0, y) ==
    FxAdd(FxAdd(v[y0], FxMulInt(m.lmw, LogProb(m, y0, y))), Emission(probDist, y))

\* lines 166-170: the state y0 of the greatest (score, y0) reaching y
Best(m, states, v, probDist, y) ==
    ArgMax(states, Dict([y0 \in states |-> Extend(m, v, probDist, y0, y)]))

\* lines 161-175, from position t on; v is V[t - 1] and path the paths to it
RECURSIVE Forward(_, _, _, _, _, _)
Forward(m, states, tagProbsByPos, t, v, path) ==
    IF t > Len(tagProbsByPos) THEN [v |-> v, path |-> path]
    ELSE LET from == Dict([y \in states |-> Best(m, states, v, tagProbsByPos[t], y)])
         IN  Forward(m, states, tagProbsByPos, t + 1,
                     Dict([y \in states |-> Extend(m, v, tagProbsByPos[t], from[y], y)]),
                     Dict([y \in states |-> Append(path[from[y]], y)]))

\* lines 150-178 over the given states, which every distribution covers
Decode(m, states, tagProbsByPos) ==
    LET end == Forward(m, states, tagProbsByPos, 2,
                       Dict([y \in states |-> Start(m, tagProbsByPos[1], y)]),
                       Dict([y \in states |-> <<y>>]))
        best == ArgMax(states, end.v)
    IN  [ok |-> TRUE, err |-> "", prob |-> end.v[best], path |-> end.path[best]]

\* a position whose distribution has no entry for a state
Missing(states, tagProbsByPos) ==
    \E t \in 1..Len(tagProbsByPos) : \E y \in states : y \notin DOMAIN tagProbsByPos[t]

\* a decoder that drops the tags some position has no entry for
ViterbiSkipping(m, tagProbsByPos) ==
    LET present == {y \in m.tags :
                       \A t \in 1..Len(tagProbsByPos) : y \in DOMAIN tagProbsByPos[t]}
    IN  IF tagProbsByPos = <<>> \/ present = {} THEN Raised("ValueError")
        ELSE Decode(m, present, tagProbsByPos)

\* viterbi(tagProbsByPos) on the model m
Viterbi(m, tagProbsByPos) ==
    IF tagProbsByPos = <<>>
    THEN IF m.tags = {} THEN Raised("ValueError") ELSE Raised("IndexError")
    ELSE IF Missing(m.tags, tagProbsByPos) THEN Raised("KeyError")
    ELSE IF m.tags = {} THEN Raised("ValueError")
    ELSE Decode(m, m.tags, tagProbsByPos)

ModelAt(i) == IF i = 0 THEN Self ELSE loaded[i]

\* the model made last: the trained one, or the one loaded last
Newest == IF loaded[2].exists THEN 2 ELSE IF loaded[1].exists THEN 1 ELSE 0

\* a run tags with the model made last, once the trained model is finalized
\* and written; tagging changes no model, and the run ends with it
Decodable(i) == modelFile[1].exists /\ i = Newest

Tagged(i, r) ==
    [done |-> TRUE, by |-> i, ok |-> r.ok, err |-> r.err, prob |-> r.prob, path |-> r.path]

\* tagSent(tagProbsByPos) on model i
TagSent(i, tagProbsByPos) ==
    /\ Decodable(i)
    /\ ~decoded.done
    /\ sentence' = tagProbsByPos
    /\ decoded' = Tagged(i, Viterbi(ModelAt(i), tagProbsByPos))
    /\ last' = Call("tagSent", decoded'.ok)
    /\ UNCHANGED <<trainVars, fileVars>>

(* ---------------------------- specifications --------------------------- *)
\* the model as an object: any call in any order
Next ==
    \/ \E first \in Tags, second \in Tags : Obs(first, second)
    \/ \E tagSequence \in TagSequences : ObsSequence(tagSequence)
    \/ Count
    \/ Reset
    \/ \E first \in Tags, second \in Tags : LogProbQuery(first, second)

\* TransModel(): the training methods read no language model weight
InitDefault == Init /\ lmw = DefaultLmw

Spec == InitDefault /\ [][Next]_vars

\* bigram-train, then the model file is read back, possibly tampered with
NextFile ==
    \/ \E tagSequence \in CorpusSequences : Train(tagSequence)
    \/ Finish
    \/ \E i \in Round : WriteToFile(i)
    \/ \E i \in Round : GetModelFromFile(i)
    \/ \E i \in HeaderLines : DropHeaderLine(i)
    \/ \E i \in BigramLineNumbers : AddField(i)
    \/ \E i \in BigramLineNumbers : DropField(i)
    \/ \E i \in BigramLineNumbers : NonNumeric(i)

SpecFile == Init /\ [][NextFile]_vars

\* bigram-train, then sentences are tagged with the models
NextTag ==
    \/ \E tagSequence \in CorpusSequences : Train(tagSequence)
    \/ Finish
    \/ \E i \in Round : WriteToFile(i)
    \/ \E i \in Round : GetModelFromFile(i)
    \/ \E i \in ModelIds, tagProbsByPos \in Sentences : TagSent(i, tagProbsByPos)

SpecTag == Init /\ [][NextTag]_vars

(* ----------------------- helpers of the properties --------------------- *)
\* 10^-8, the tolerance of the comparisons of floats
Tol == <<0, 10>>

Close(a, b) == FxLeq(FxAbs(FxSub(a, b)), Tol)

RECURSIVE GCD(_, _)
GCD(a, b) == IF b = 0 THEN a ELSE GCD(b, a % b)

\* exp of a stored log-probability, as the fraction n/d in lowest terms with
\* n, d <= k whose logarithm it is
ExpQ(v, k) ==
    CHOOSE q \in (1..k) \X (1..k) :
        GCD(q[1], q[2]) = 1 /\ Close(FxSub(MathLog(q[1]), MathLog(q[2])), v)

RECURSIVE Product(_, _)
Product(S, f) ==
    IF S = {} THEN 1
    ELSE LET x == CHOOSE y \in S : TRUE IN f[x] * Product(S \ {x}, f)

RECURSIVE Sum(_, _)
Sum(S, f) ==
    IF S = {} THEN 0
    ELSE LET x == CHOOSE y \in S : TRUE IN f[x] + Sum(S \ {x}, f)

\* the sum of the fractions q[x], x in S, as <<numerator, denominator>>
SumQ(S, q) ==
    LET den == Product(S, [x \in S |-> q[x][2]])
    IN  <<Sum(S, [x \in S |-> q[x][1] * (den \div q[x][2])]), den>>

Returned(op) == last.op = op /\ last.ok

Successors(t1) == {t2 \in Tags : <<t1, t2>> \in DOMAIN bigramLogProb}

\* the sum over the observed successors t2 of t1 of exp(bigramLogProb[(t1, t2)])
OutgoingMass(t1) ==
    SumQ(Successors(t1),
         [t2 \in Successors(t1) |-> ExpQ(bigramLogProb[<<t1, t2>>], MaxObs * MaxObs)])

\* the sum over all tags of exp(unigramLogProb[t])
UnigramMass ==
    SumQ(DOMAIN unigramLogProb,
         [t \in DOMAIN unigramLogProb |-> ExpQ(unigramLogProb[t], MaxObs)])

(* ------------------------------ properties ----------------------------- *)
\* C1: after count() on a model trained only through obsSequence, every
\* observed bigram (t1, t2) has bigramLogProb[(t1, t2)] equal to the logarithm
\* of bigramCount[(t1, t2)] / unigramCount[t1], the conditional relative
\* frequency of t2 after t1.
C1_ConditionalRelativeFrequency ==
    (Returned("count") /\ ~direct) =>
        \A p \in DOMAIN bigramCount :
            /\ p \in DOMAIN bigramLogProb
            /\ Close(bigramLogProb[p],
                     FxSub(MathLog(bigramCount[p]), MathLog(unigramCount[p[1]])))

\* C2: after count(), for every tag t1 with an observed outgoing bigram, the
\* probabilities exp(bigramLogProb[(t1, t2)]) of its observed successors sum
\* to at most 1.
C2_OutgoingMassAtMostOne ==
    Returned("count") =>
        \A t1 \in Tags :
            Successors(t1) # {} => OutgoingMass(t1)[1] <= OutgoingMass(t1)[2]

\* C3 as stated: in every state _obsCount is the sum of the unigram counts,
\* and after count() the probabilities exp(unigramLogProb[t]) sum to 1.
C3_AsStated ==
    /\ obsCount = Sum(DOMAIN unigramCount, unigramCount)
    /\ Returned("count") => UnigramMass[1] = UnigramMass[2]

\* C3 as amended: in every state _obsCount is the sum of the unigram counts,
\* and after a count() that returns on a model holding at least one
\* observation the probabilities exp(unigramLogProb[t]) sum to 1.
C3_ObsCountIsUnigramTotal ==
    /\ obsCount = Sum(DOMAIN unigramCount, unigramCount)
    /\ (Returned("count") /\ obsCount > 0) =>
           /\ DOMAIN unigramLogProb = tags
           /\ UnigramMass[1] = UnigramMass[2]

C3_Witness ==
    /\ Returned("count")
    /\ Cardinality(tags) >= 2
    /\ \E t \in tags : unigramCount[t] >= 2

\* C4: obs makes the model dirty and leaves both tables as the last count()
\* left them; a logProb query warns exactly when the model is dirty and
\* returns the value of the last count() (ln(smooth) for a pair absent then);
\* count() clears the dirty flag.
C4_DirtyLifecycle ==
    /\ last.op \in {"obs", "obsSequence"} => ~updated
    /\ Returned("count") => updated
    /\ ~updated => Tables(bigramLogProb, unigramLogProb) = finalized
    /\ last.op = "logProb" =>
           /\ last.warned = ~updated
           /\ last.ret = LogProb([Self EXCEPT !.bigramLogProb = finalized.bigramLogProb],
                                last.first, last.second)

\* C7: after any obs calls, count() completes and both components of every
\* key of the bigram counts are in the tag set.
C7_CountCompletes ==
    last.op = "count" =>
        /\ last.ok
        /\ \A p \in DOMAIN bigramCount : p[1] \in tags /\ p[2] \in tags

\* the trained model was written, and the file read back as it was written
RoundTripped == loaded[1].exists /\ damage = "none"

\* C5 as stated: the model read back from the file the trained model wrote has
\* the same unigramLogProb and bigramLogProb tables, same keys and values equal
\* up to the rounding, and answers logProb alike for every pair of tags.
C5_AsStated ==
    RoundTripped =>
        /\ DOMAIN loaded[1].unigramLogProb = DOMAIN unigramLogProb
        /\ DOMAIN loaded[1].bigramLogProb = DOMAIN bigramLogProb
        /\ \A t \in DOMAIN unigramLogProb :
               Close(loaded[1].unigramLogProb[t], unigramLogProb[t])
        /\ \A p \in DOMAIN bigramLogProb :
               Close(loaded[1].bigramLogProb[p], bigramLogProb[p])
        /\ \A t1 \in tags, t2 \in tags :
               Close(LogProb(loaded[1], t1, t2), LogProb(Self, t1, t2))

\* C5 as amended: the model read back has the unigramLogProb of the written
\* model on its tags other than the boundary symbol and no entry for the
\* boundary symbol; its bigramLogProb has a key for every pair of tags of the
\* written model, observed or not, holding a value of eight decimals within
\* 10^-8 of what logProb returns on the written model; so logProb answers
\* alike, up to the rounding, for every pair of tags, the boundary symbol
\* included; smooth, boundary symbol and weight are the written ones.
C5_RoundTrip ==
    RoundTripped =>
        /\ DOMAIN loaded[1].unigramLogProb = tags \ {boundarySymbol}
        /\ \A t \in tags \ {boundarySymbol} :
               loaded[1].unigramLogProb[t] = unigramLogProb[t]
        /\ DOMAIN loaded[1].bigramLogProb = tags \X tags
        /\ \A t1 \in tags, t2 \in tags :
               /\ loaded[1].bigramLogProb[<<t1, t2>>][2] % 10 = 0
               /\ Close(LogProb(loaded[1], t1, t2), LogProb(Self, t1, t2))
        /\ loaded[1].smooth = SmoothExp
        /\ loaded[1].boundarySymbol = boundarySymbol
        /\ loaded[1].lmw = lmw

C5_Witness ==
    /\ RoundTripped
    /\ boundarySymbol \in tags
    /\ \E p \in tags \X tags : p \notin DOMAIN bigramLogProb
    /\ \E p \in DOMAIN bigramLogProb : loaded[1].bigramLogProb[p] # bigramLogProb[p]

\* C8: loading a model file with a bigram line of fewer or more than three
\* fields, with a probability that is no number, or with a header line
\* missing, fails and returns no model.
C8_MalformedFileFails ==
    (damage # "none" /\ last.op = "getModelFromFile") =>
        ~last.ok /\ ~loaded[1].exists

\* the model that tagged the sentence
Tagger == ModelAt(decoded.by)

RECURSIVE Objective(_, _, _, _)
\* lmw * logProb(boundary, path[1]) + the sum of ln p[t][path[t]] + lmw * the
\* sum of logProb(path[t-1], path[t]), over the positions 1..t
Objective(m, tagProbsByPos, path, t) ==
    IF t = 0 THEN Zero
    ELSE FxAdd(Objective(m, tagProbsByPos, path, t - 1),
               FxAdd(MathLogProb(tagProbsByPos[t][path[t]]),
                     FxMulInt(m.lmw,
                              LogProb(m, IF t = 1 THEN m.boundarySymbol ELSE path[t - 1],
                                      path[t]))))

\* every position of the sentence gives a probability to every tag of m
Covers(m) ==
    /\ sentence # <<>>
    /\ \A t \in 1..Len(sentence) : m.tags \subseteq DOMAIN sentence[t]

Optimal(m) ==
    /\ decoded.ok
    /\ Len(decoded.path) = Len(sentence)
    /\ \A t \in 1..Len(sentence) : decoded.path[t] \in m.tags
    /\ decoded.prob = Objective(m, sentence, decoded.path, Len(sentence))
    /\ \A q \in [1..Len(sentence) -> m.tags] :
           ~FxLess(decoded.prob, Objective(m, sentence, q, Len(sentence)))

C9_MissingTagFails ==
    (decoded.done /\
     \E t \in 1..Len(sentence) : \E y \in Tagger.tags : y \notin DOMAIN sentence[t]) =>
        /\ ~decoded.ok
        /\ decoded.err = "KeyError"
        /\ decoded.path = <<>>

C9_Witness ==
    /\ decoded.done
    /\ ~decoded.ok
    /\ Len(sentence) >= 2
    /\ Tagger.tags \subseteq DOMAIN sentence[1]
    /\ \E y \in Tagger.tags : y \notin DOMAIN sentence[2]

\* C10: a model read back from its file has the tag set of the trained model,
\* and on every sentence viterbi on it and on the trained model both fail or
\* give the same path; so does the model of the second round trip.
C10_SameDecodingAfterReload ==
    /\ \A i \in Round : loaded[i].exists => loaded[i].tags = tags
    /\ (decoded.done /\ decoded.by \in Round) =>
           /\ Viterbi(Self, sentence).ok = decoded.ok
           /\ decoded.ok => Viterbi(Self, sentence).path = decoded.path
====
